---- MODULE Spec2Model ----
(***************************************************************************)
(* Package jobopts (sdks/go/pkg/beam/options/jobopts/options.go): the six  *)
(* process-wide job-submission flags and the four accessors GetEndpoint,   *)
(* GetJobName, GetContainerImage and GetExperiments.                       *)
(*                                                                         *)
(* Text is a sequence of one-character strings.  The two flags that the    *)
(* accessors write back (JobName, ContainerImage) are kept as Go string    *)
(* headers [ptr, len]: a Go string is two machine words, an unsynchronised *)
(* store or load of it is two word accesses in no fixed order, and         *)
(* `s == ""` tests the length word.  ptr stands for the backing bytes.     *)
(***************************************************************************)
EXTENDS Naturals, Sequences, FiniteSets

VARIABLES
    Endpoint, JobName, ContainerImage, Experiments, Async, InternalJavaRunner,
    clock,        \* what time.Now().UnixNano() returns at this moment
    USER,         \* the value of the environment variable USER
    diagnostics,  \* number of log.Infof emissions so far
    pc,           \* per goroutine: the line it is at
    gen,          \* per goroutine: the default it computed (line 65 / 75)
    pend,         \* per goroutine: words of gen not yet stored
    ret,          \* per goroutine: words loaded so far for the return value
    need,         \* per goroutine: words of the return value not yet loaded
    res,          \* per goroutine: what the finished call returned
    writes,       \* number of writes made by code outside the package
    \* History variables: they record what happened and are read by the
    \* properties only; no action's guard or effect depends on them.
    pre,          \* the flags as they were when the caller's call began
    cur,          \* what the caller's running call has done so far
    lastName, lastImage, lastExp,  \* what the previous call of each accessor returned
    stat,         \* how often ContainerImage was found empty / reset to empty
    jnSeen        \* the JobName headers left behind by completed stores

rawVars == <<Endpoint, JobName, ContainerImage, Experiments, Async, InternalJavaRunner>>
envVars == <<clock, USER>>
callVars == <<pc, gen, pend, ret, need, res>>
histVars == <<pre, cur, lastName, lastImage, lastExp, stat, jnSeen>>
vars == <<rawVars, envVars, diagnostics, callVars, writes, histVars>>

----------------------------------------------------------------------------
(* Bounds *)

MaxLen == 3
ClockStart == 9
MaxTicks == 1
MaxWrites == 2
NumThreads == 2

Threads == 1..NumThreads
Caller == 1

----------------------------------------------------------------------------
(* Text *)

Words == {"ptr", "len"}

MkString(s) == [ptr |-> s, len |-> Len(s)]

NilString == MkString(<<>>)

\* `*JobName == ""`, `*ContainerImage == ""`: a test of the length word.
IsEmptyString(h) == h.len = 0

Digit(d) == CASE d = 0 -> "0" [] d = 1 -> "1" [] d = 2 -> "2" [] d = 3 -> "3"
              [] d = 4 -> "4" [] d = 5 -> "5" [] d = 6 -> "6" [] d = 7 -> "7"
              [] d = 8 -> "8" [] d = 9 -> "9"

RECURSIVE FormatInt(_)
\* %v of an int64 (non-negative here): its decimal digits, no padding.
FormatInt(n) == IF n < 10 THEN <<Digit(n)>> ELSE FormatInt(n \div 10) \o <<Digit(n % 10)>>

JobNamePrefix == <<"g", "o", "-", "j", "o", "b", "-">>

\* fmt.Sprintf("go-job-%v", nanos)
SprintfJobName(nanos) == JobNamePrefix \o FormatInt(nanos)

ImageTemplate ==
    <<"$", "U", "S", "E", "R", "-", "d", "o", "c", "k", "e", "r", "-", "a", "p", "a",
      "c", "h", "e", ".", "b", "i", "n", "t", "r", "a", "y", ".", "i", "o", "/", "b",
      "e", "a", "m", "/", "g", "o", ":", "l", "a", "t", "e", "s", "t">>

\* The characters that continue a shell variable name (letters, digits and
\* "_"), as far as they occur in the template or in "USER".
NameChars == {"U", "S", "E", "R", "d", "o", "c", "k", "e", "r", "a", "p", "h", "b", "i",
              "n", "t", "y", "m", "g", "l", "s", "_"}

RECURSIVE NameEnd(_, _)
\* The last index of the variable name that starts at s[i] (i - 1 if none).
NameEnd(s, i) == IF i <= Len(s) /\ s[i] \in NameChars THEN NameEnd(s, i + 1) ELSE i - 1

\* os.Getenv: an unset variable reads as the empty string.
Getenv(name, user) == IF name = <<"U", "S", "E", "R">> THEN user ELSE <<>>

RECURSIVE ExpandFrom(_, _, _)
\* os.Expand, from index i on: $name is replaced by the variable's value.
ExpandFrom(s, i, user) ==
    IF i > Len(s) THEN <<>>
    ELSE IF s[i] = "$" /\ NameEnd(s, i + 1) > i
         THEN Getenv(SubSeq(s, i + 1, NameEnd(s, i + 1)), user)
                  \o ExpandFrom(s, NameEnd(s, i + 1) + 1, user)
         ELSE <<s[i]>> \o ExpandFrom(s, i + 1, user)

\* os.ExpandEnv("$USER-docker-apache.bintray.io/beam/go:latest")
ExpandEnv(s, user) == ExpandFrom(s, 1, user)

Sep == ","

RECURSIVE Index(_, _)
\* strings.Index(s, ","), 1-based from position i; 0 when there is none.
Index(s, i) == IF i > Len(s) THEN 0 ELSE IF s[i] = Sep THEN i ELSE Index(s, i + 1)

RECURSIVE SplitSkipEmpty(_)
\* A split that drops the empty pieces (what strings.FieldsFunc would do).
SplitSkipEmpty(s) ==
    IF s = <<>> THEN <<>>
    ELSE IF Index(s, 1) = 0 THEN <<s>>
    ELSE IF Index(s, 1) = 1 THEN SplitSkipEmpty(SubSeq(s, 2, Len(s)))
    ELSE <<SubSeq(s, 1, Index(s, 1) - 1)>>
             \o SplitSkipEmpty(SubSeq(s, Index(s, 1) + 1, Len(s)))

RECURSIVE Split(_)
\* strings.Split(s, ","): cut at every comma, keep every piece.
Split(s) ==
    IF Index(s, 1) = 0 THEN <<s>>
    ELSE <<SubSeq(s, 1, Index(s, 1) - 1)>> \o Split(SubSeq(s, Index(s, 1) + 1, Len(s)))

----------------------------------------------------------------------------
(* Values the flags are set to from outside the package *)

RECURSIVE StringsOver(_, _)
StringsOver(chars, n) ==
    IF n = 0 THEN {<<>>}
    ELSE StringsOver(chars, n - 1)
             \cup {Append(s, c) : s \in StringsOver(chars, n - 1), c \in chars}

ExperimentChars == {"a", ",", " "}
ExperimentValues == StringsOver(ExperimentChars, MaxLen)
EndpointValues == {<<>>, <<"h", ":", "1">>}
JobNameValues == {<<>>, <<"m", "y", "-", "j", "o", "b">>}
ContainerImageValues == {<<>>, <<"i", "m", "g">>}
InternalJavaRunnerValues == {<<>>, <<"R">>}
UserValues == {<<>>, <<"u">>}

----------------------------------------------------------------------------
(* The accessors' results *)

NoError == "nil"
ErrNoEndpoint == "no job service endpoint specified. Use --endpoint=<endpoint>"

\* A GetEndpoint that falls back to a default address instead of failing.
GetEndpointResultDefaulted(endpoint) ==
    [op |-> "GetEndpoint",
     val |-> IF endpoint = <<>> THEN <<"h", ":", "0">> ELSE endpoint,
     err |-> NoError]

\* GetEndpoint, lines 54-59.
GetEndpointResult(endpoint) ==
    IF endpoint = <<>>
    THEN [op |-> "GetEndpoint", val |-> <<>>, err |-> ErrNoEndpoint]
    ELSE [op |-> "GetEndpoint", val |-> endpoint, err |-> NoError]

\* GetExperiments, lines 82-87: nil for the empty flag, else the split.
GetExperimentsResult(experiments) ==
    IF experiments = <<>>
    THEN [op |-> "GetExperiments", val |-> <<>>, err |-> NoError]
    ELSE [op |-> "GetExperiments", val |-> Split(experiments), err |-> NoError]

\* A check that is always taken: a new name on every call.
JobNameUnsetAlways(h) == TRUE

\* A check with the comparison inverted (`!=` for `==`).
JobNameUnsetInverted(h) == ~IsEmptyString(h)

\* Line 64: is the job name still to be generated?
JobNameUnset(h) == IsEmptyString(h)

\* A check that is always taken: the default replaces whatever was set.
ContainerImageUnsetAlways(h) == TRUE

\* Line 74: is the container image still to be defaulted?
ContainerImageUnset(h) == IsEmptyString(h)

\* A name built from a coarser clock reading (Unix() for UnixNano()).
DefaultJobNameCoarse(nanos) == MkString(SprintfJobName(nanos \div 10))

\* Line 65: the generated name.
DefaultJobName(nanos) == MkString(SprintfJobName(nanos))

\* Line 75: the development image of the current user.
DefaultContainerImage(user) == MkString(ExpandEnv(ImageTemplate, user))

\* A store that is given up when the flag has meanwhile been set by someone else.
StoreJobNameWordIfUnset(t, w) ==
    IF pend[t] = Words /\ ~IsEmptyString(JobName)
    THEN JobName
    ELSE [JobName EXCEPT ![w] = gen[t][w]]

\* Line 65, `*JobName = ...`: one word of the computed name goes to the flag.
StoreJobNameWord(t, w) == [JobName EXCEPT ![w] = gen[t][w]]

\* Line 75, `*ContainerImage = ...`: one word of the computed image goes to the flag.
StoreContainerImageWord(t, w) == [ContainerImage EXCEPT ![w] = gen[t][w]]

\* A return of a local that was never loaded from the flag.
LoadJobNameWordStale(t, w) == ret[t]

\* Line 67, `return *JobName`: one word of the flag is loaded.
LoadJobNameWord(t, w) == [ret[t] EXCEPT ![w] = JobName[w]]

\* Line 78, `return *ContainerImage`: one word of the flag is loaded.
LoadContainerImageWord(t, w) == [ret[t] EXCEPT ![w] = ContainerImage[w]]

\* Line 76: log.Infof is called once.
Infof(n) == n + 1

----------------------------------------------------------------------------
(* State *)

\* The flag package's defaults (lines 33-49), before any goroutine has called in.
Init ==
    /\ Endpoint = <<>>
    /\ JobName = NilString
    /\ ContainerImage = NilString
    /\ Experiments = <<>>
    /\ Async = FALSE
    /\ InternalJavaRunner = <<>>
    /\ clock = ClockStart
    /\ USER \in UserValues
    /\ diagnostics = 0
    /\ pc = [t \in Threads |-> "idle"]
    /\ gen = [t \in Threads |-> NilString]
    /\ pend = [t \in Threads |-> {}]
    /\ ret = [t \in Threads |-> NilString]
    /\ need = [t \in Threads |-> {}]
    /\ res = [t \in Threads |-> <<>>]
    /\ writes = 0
    /\ pre = <<>>
    /\ cur = <<>>
    /\ lastName = <<>>
    /\ lastImage = <<>>
    /\ lastExp = <<>>
    /\ stat = [ciFinds |-> 0, ciResets |-> 0]
    /\ jnSeen = {}

\* The flags as flag.Parse leaves them: job_name and container_image given or
\* not, the other four flags all given or all left at their defaults.
InitParsed ==
    /\ \E given \in BOOLEAN :
        /\ Endpoint = IF given THEN <<"h", ":", "1">> ELSE <<>>
        /\ Experiments = IF given THEN <<"a", ",", "a">> ELSE <<>>
        /\ Async = given
        /\ InternalJavaRunner = IF given THEN <<"R">> ELSE <<>>
    /\ JobName \in {MkString(v) : v \in JobNameValues}
    /\ ContainerImage \in {MkString(v) : v \in ContainerImageValues}
    /\ clock = ClockStart
    /\ USER \in UserValues
    /\ diagnostics = 0
    /\ pc = [t \in Threads |-> "idle"]
    /\ gen = [t \in Threads |-> NilString]
    /\ pend = [t \in Threads |-> {}]
    /\ ret = [t \in Threads |-> NilString]
    /\ need = [t \in Threads |-> {}]
    /\ res = [t \in Threads |-> <<>>]
    /\ writes = 0
    /\ pre = <<>>
    /\ cur = <<>>
    /\ lastName = <<>>
    /\ lastImage = <<>>
    /\ lastExp = <<>>
    /\ stat = [ciFinds |-> 0, ciResets |-> 0]
    /\ jnSeen = {}

----------------------------------------------------------------------------
(* The accessors, one goroutine t at a time *)

\* GetEndpoint, lines 54-59: reads the flag and returns.
GetEndpoint(t) ==
    /\ pc[t] = "idle"
    /\ pc' = [pc EXCEPT ![t] = "done"]
    /\ res' = [res EXCEPT ![t] = <<GetEndpointResult(Endpoint)>>]
    /\ UNCHANGED <<rawVars, envVars, diagnostics, gen, pend, ret, need, writes>>

\* A GetExperiments that keeps returning the list it split first.
GetExperimentsCached(t) ==
    /\ pc[t] = "idle"
    /\ pc' = [pc EXCEPT ![t] = "done"]
    /\ res' = [res EXCEPT ![t] =
                  IF lastExp = <<>> THEN <<GetExperimentsResult(Experiments)>>
                  ELSE <<[op |-> "GetExperiments", val |-> lastExp[1].val,
                          err |-> NoError]>>]
    /\ UNCHANGED <<rawVars, envVars, diagnostics, gen, pend, ret, need, writes>>

\* GetExperiments, lines 82-87: reads the flag and returns.
GetExperiments(t) ==
    /\ pc[t] = "idle"
    /\ pc' = [pc EXCEPT ![t] = "done"]
    /\ res' = [res EXCEPT ![t] = <<GetExperimentsResult(Experiments)>>]
    /\ UNCHANGED <<rawVars, envVars, diagnostics, gen, pend, ret, need, writes>>

\* GetJobName is entered (line 63).
CallGetJobName(t) ==
    /\ pc[t] = "idle"
    /\ pc' = [pc EXCEPT ![t] = "jn64"]
    /\ UNCHANGED <<rawVars, envVars, diagnostics, gen, pend, ret, need, res, writes>>

\* Line 64: `if *JobName == ""`.
CheckJobName(t) ==
    /\ pc[t] = "jn64"
    /\ IF JobNameUnset(JobName)
       THEN /\ pc' = [pc EXCEPT ![t] = "jn65"]
            /\ UNCHANGED need
       ELSE /\ pc' = [pc EXCEPT ![t] = "jn67"]
            /\ need' = [need EXCEPT ![t] = Words]
    /\ UNCHANGED <<rawVars, envVars, diagnostics, gen, pend, ret, res, writes>>

\* Line 65, right-hand side: fmt.Sprintf("go-job-%v", time.Now().UnixNano()).
SprintfJobNameNow(t) ==
    /\ pc[t] = "jn65"
    /\ pc' = [pc EXCEPT ![t] = "jn65w"]
    /\ gen' = [gen EXCEPT ![t] = DefaultJobName(clock)]
    /\ pend' = [pend EXCEPT ![t] = Words]
    /\ UNCHANGED <<rawVars, envVars, diagnostics, ret, need, res, writes>>

\* Line 65, the assignment: the two words of the string are stored one at a time.
StoreJobName(t) ==
    /\ pc[t] = "jn65w"
    /\ \E w \in pend[t] :
        /\ JobName' = StoreJobNameWord(t, w)
        /\ pend' = [pend EXCEPT ![t] = @ \ {w}]
        /\ IF pend[t] = {w}
           THEN /\ pc' = [pc EXCEPT ![t] = "jn67"]
                /\ need' = [need EXCEPT ![t] = Words]
                /\ gen' = [gen EXCEPT ![t] = NilString]
           ELSE UNCHANGED <<pc, need, gen>>
    /\ UNCHANGED <<Endpoint, ContainerImage, Experiments, Async, InternalJavaRunner,
                   envVars, diagnostics, ret, res, writes>>

\* Line 67: `return *JobName`, the two words loaded one at a time.
ReturnJobName(t) ==
    /\ pc[t] = "jn67"
    /\ \E w \in need[t] :
        /\ need' = [need EXCEPT ![t] = @ \ {w}]
        /\ IF need[t] = {w}
           THEN /\ pc' = [pc EXCEPT ![t] = "done"]
                /\ res' = [res EXCEPT ![t] =
                              <<[op |-> "GetJobName", val |-> LoadJobNameWord(t, w),
                                 err |-> NoError]>>]
                /\ ret' = [ret EXCEPT ![t] = NilString]
           ELSE /\ ret' = [ret EXCEPT ![t] = LoadJobNameWord(t, w)]
                /\ UNCHANGED <<pc, res>>
    /\ UNCHANGED <<rawVars, envVars, diagnostics, gen, pend, writes>>

\* GetContainerImage is entered (line 73).
CallGetContainerImage(t) ==
    /\ pc[t] = "idle"
    /\ pc' = [pc EXCEPT ![t] = "ci74"]
    /\ UNCHANGED <<rawVars, envVars, diagnostics, gen, pend, ret, need, res, writes>>

\* The log statement placed after the if block: every call logs.
CheckContainerImageLogAlways(t) ==
    /\ pc[t] = "ci74"
    /\ pc' = [pc EXCEPT ![t] = IF ContainerImageUnset(ContainerImage)
                                 THEN "ci75" ELSE "ci76"]
    /\ UNCHANGED <<rawVars, envVars, diagnostics, gen, pend, ret, need, res, writes>>

\* Line 74: `if *ContainerImage == ""`.
CheckContainerImage(t) ==
    /\ pc[t] = "ci74"
    /\ IF ContainerImageUnset(ContainerImage)
       THEN /\ pc' = [pc EXCEPT ![t] = "ci75"]
            /\ UNCHANGED need
       ELSE /\ pc' = [pc EXCEPT ![t] = "ci78"]
            /\ need' = [need EXCEPT ![t] = Words]
    /\ UNCHANGED <<rawVars, envVars, diagnostics, gen, pend, ret, res, writes>>

\* Line 75, right-hand side: os.ExpandEnv reads USER.
ExpandEnvImage(t) ==
    /\ pc[t] = "ci75"
    /\ pc' = [pc EXCEPT ![t] = "ci75w"]
    /\ gen' = [gen EXCEPT ![t] = DefaultContainerImage(USER)]
    /\ pend' = [pend EXCEPT ![t] = Words]
    /\ UNCHANGED <<rawVars, envVars, diagnostics, ret, need, res, writes>>

\* Line 75, the assignment, one word at a time.
StoreContainerImage(t) ==
    /\ pc[t] = "ci75w"
    /\ \E w \in pend[t] :
        /\ ContainerImage' = StoreContainerImageWord(t, w)
        /\ pend' = [pend EXCEPT ![t] = @ \ {w}]
        /\ pc' = [pc EXCEPT ![t] = IF pend[t] = {w} THEN "ci76" ELSE @]
        /\ gen' = [gen EXCEPT ![t] = IF pend[t] = {w} THEN NilString ELSE @]
    /\ UNCHANGED <<Endpoint, JobName, Experiments, Async, InternalJavaRunner,
                   envVars, diagnostics, ret, need, res, writes>>

\* Line 76: log.Infof(ctx, "No container image specified. ...").
LogDevImage(t) ==
    /\ pc[t] = "ci76"
    /\ pc' = [pc EXCEPT ![t] = "ci78"]
    /\ diagnostics' = Infof(diagnostics)
    /\ need' = [need EXCEPT ![t] = Words]
    /\ UNCHANGED <<rawVars, envVars, gen, pend, ret, res, writes>>

\* Line 78: `return *ContainerImage`, one word at a time.
ReturnContainerImage(t) ==
    /\ pc[t] = "ci78"
    /\ \E w \in need[t] :
        /\ need' = [need EXCEPT ![t] = @ \ {w}]
        /\ IF need[t] = {w}
           THEN /\ pc' = [pc EXCEPT ![t] = "done"]
                /\ res' = [res EXCEPT ![t] =
                              <<[op |-> "GetContainerImage",
                                 val |-> LoadContainerImageWord(t, w), err |-> NoError]>>]
                /\ ret' = [ret EXCEPT ![t] = NilString]
           ELSE /\ ret' = [ret EXCEPT ![t] = LoadContainerImageWord(t, w)]
                /\ UNCHANGED <<pc, res>>
    /\ UNCHANGED <<rawVars, envVars, diagnostics, gen, pend, writes>>

\* The caller takes the returned value; the goroutine is free to call again.
Return(t) ==
    /\ pc[t] = "done"
    /\ pc' = [pc EXCEPT ![t] = "idle"]
    /\ res' = [res EXCEPT ![t] = <<>>]
    /\ UNCHANGED <<rawVars, envVars, diagnostics, gen, pend, ret, need, writes>>

\* Time passes: a later time.Now() reads a larger value.
Tick ==
    /\ clock < ClockStart + MaxTicks
    /\ clock' = clock + 1
    /\ UNCHANGED <<rawVars, USER, diagnostics, callVars, writes>>

----------------------------------------------------------------------------
(* Writes from outside the package: the exported flag pointers (lines 31-50) *)
(* are assigned by flag.Parse or by user code, between two calls.            *)

Quiet == \A t \in Threads : pc[t] = "idle"

External == Quiet /\ writes < MaxWrites /\ writes' = writes + 1

SetEndpoint ==
    /\ External
    /\ Endpoint' \in EndpointValues
    /\ UNCHANGED <<JobName, ContainerImage, Experiments, Async, InternalJavaRunner,
                   envVars, diagnostics, callVars>>

SetJobName ==
    /\ External
    /\ \E v \in JobNameValues : JobName' = MkString(v)
    /\ UNCHANGED <<Endpoint, ContainerImage, Experiments, Async, InternalJavaRunner,
                   envVars, diagnostics, callVars>>

SetContainerImage ==
    /\ External
    /\ \E v \in ContainerImageValues : ContainerImage' = MkString(v)
    /\ UNCHANGED <<Endpoint, JobName, Experiments, Async, InternalJavaRunner,
                   envVars, diagnostics, callVars>>

SetExperiments ==
    /\ External
    /\ Experiments' \in ExperimentValues
    /\ UNCHANGED <<Endpoint, JobName, ContainerImage, Async, InternalJavaRunner,
                   envVars, diagnostics, callVars>>

SetAsync ==
    /\ External
    /\ Async' \in BOOLEAN
    /\ UNCHANGED <<Endpoint, JobName, ContainerImage, Experiments, InternalJavaRunner,
                   envVars, diagnostics, callVars>>

SetInternalJavaRunner ==
    /\ External
    /\ InternalJavaRunner' \in InternalJavaRunnerValues
    /\ UNCHANGED <<Endpoint, JobName, ContainerImage, Experiments, Async,
                   envVars, diagnostics, callVars>>

\* os.Setenv("USER", ...) by the surrounding program.
Setenv ==
    /\ External
    /\ USER' \in UserValues
    /\ UNCHANGED <<rawVars, clock, diagnostics, callVars>>

----------------------------------------------------------------------------
(* History: what a step did, recorded for the properties.  Observe is        *)
(* conjoined to every step of the single-caller specifications; it reads the *)
(* step (unprimed and primed program variables) and sets only history.       *)

Snapshot ==
    [Endpoint |-> Endpoint, JobName |-> JobName, ContainerImage |-> ContainerImage,
     Experiments |-> Experiments, Async |-> Async,
     InternalJavaRunner |-> InternalJavaRunner]

NewCall ==
    [sawEmpty |-> FALSE, now |-> <<>>, wrote |-> FALSE, logged |-> 0,
     prevName |-> lastName, prevImage |-> lastImage, prevExp |-> lastExp]

Starting == pc[Caller] = "idle" /\ pc'[Caller] # "idle"
Finishing == pc[Caller] # "done" /\ pc'[Caller] = "done"
Outside == pc[Caller] = "idle" /\ pc'[Caller] = "idle"

StoreDone == \E t \in Threads : pc[t] = "jn65w" /\ pc'[t] = "jn67"

ObserveStores == jnSeen' = IF StoreDone THEN jnSeen \cup {JobName'} ELSE jnSeen

Observe ==
    /\ pre' = IF Starting THEN <<Snapshot>> ELSE IF pc'[Caller] = "idle" THEN <<>> ELSE pre
    /\ cur' = IF pc'[Caller] = "idle" THEN <<>>
              ELSE LET c == IF Starting THEN NewCall ELSE cur[1]
                   IN  <<[c EXCEPT
                            !.sawEmpty = @ \/ (pc[Caller] \in {"jn64", "ci74"}
                                                 /\ pc'[Caller] \in {"jn65", "ci75"}),
                            !.now = IF pc[Caller] = "jn65" /\ pc'[Caller] = "jn65w"
                                    THEN Append(@, clock) ELSE @,
                            !.wrote = @ \/ rawVars' # rawVars,
                            !.logged = @ + (diagnostics' - diagnostics)]>>
    /\ lastName' = IF Finishing /\ res'[Caller][1].op = "GetJobName"
                   THEN <<res'[Caller][1].val>>
                   ELSE IF Outside /\ JobName' # JobName THEN <<>> ELSE lastName
    /\ lastImage' = IF Finishing /\ res'[Caller][1].op = "GetContainerImage"
                    THEN <<res'[Caller][1].val>>
                    ELSE IF Outside /\ ContainerImage' # ContainerImage THEN <<>>
                    ELSE lastImage
    /\ lastExp' = IF Finishing /\ res'[Caller][1].op = "GetExperiments"
                  THEN <<[raw |-> Experiments, val |-> res'[Caller][1].val]>>
                  ELSE lastExp
    /\ stat' = [ciFinds |-> stat.ciFinds
                    + (IF pc[Caller] = "ci74" /\ pc'[Caller] = "ci75" THEN 1 ELSE 0),
                ciResets |-> stat.ciResets
                    + (IF Outside /\ ~IsEmptyString(ContainerImage)
                             /\ IsEmptyString(ContainerImage') THEN 1 ELSE 0)]
    /\ ObserveStores

\* With several goroutines only the completed stores are recorded.
ObserveConc ==
    /\ ObserveStores
    /\ UNCHANGED <<pre, cur, lastName, lastImage, lastExp, stat>>

----------------------------------------------------------------------------
(* Specifications *)

\* One caller of GetJobName and GetContainerImage; between its calls the two
\* flags and USER are written from outside.
Next ==
    \/ CallGetJobName(Caller) /\ Observe
    \/ CheckJobName(Caller) /\ Observe
    \/ SprintfJobNameNow(Caller) /\ Observe
    \/ StoreJobName(Caller) /\ Observe
    \/ ReturnJobName(Caller) /\ Observe
    \/ CallGetContainerImage(Caller) /\ Observe
    \/ CheckContainerImage(Caller) /\ Observe
    \/ ExpandEnvImage(Caller) /\ Observe
    \/ StoreContainerImage(Caller) /\ Observe
    \/ LogDevImage(Caller) /\ Observe
    \/ ReturnContainerImage(Caller) /\ Observe
    \/ Return(Caller) /\ Observe
    \/ Tick /\ Observe
    \/ SetJobName /\ Observe
    \/ SetContainerImage /\ Observe
    \/ Setenv /\ Observe

Spec == Init /\ [][Next]_vars

\* One caller of GetEndpoint and GetExperiments; between its calls any of the
\* six flags is written from outside.
NextFlags ==
    \/ GetEndpoint(Caller) /\ Observe
    \/ GetExperiments(Caller) /\ Observe
    \/ Return(Caller) /\ Observe
    \/ SetEndpoint /\ Observe
    \/ SetJobName /\ Observe
    \/ SetContainerImage /\ Observe
    \/ SetExperiments /\ Observe
    \/ SetAsync /\ Observe
    \/ SetInternalJavaRunner /\ Observe

SpecFlags == Init /\ [][NextFlags]_vars

\* One caller of all four accessors, after flag.Parse; nothing outside the
\* package writes the flags.
NextResolve ==
    \/ GetEndpoint(Caller) /\ Observe
    \/ GetExperiments(Caller) /\ Observe
    \/ CallGetJobName(Caller) /\ Observe
    \/ CheckJobName(Caller) /\ Observe
    \/ SprintfJobNameNow(Caller) /\ Observe
    \/ StoreJobName(Caller) /\ Observe
    \/ ReturnJobName(Caller) /\ Observe
    \/ CallGetContainerImage(Caller) /\ Observe
    \/ CheckContainerImage(Caller) /\ Observe
    \/ ExpandEnvImage(Caller) /\ Observe
    \/ StoreContainerImage(Caller) /\ Observe
    \/ LogDevImage(Caller) /\ Observe
    \/ ReturnContainerImage(Caller) /\ Observe
    \/ Return(Caller) /\ Observe
    \/ Tick /\ Observe

SpecResolve == InitParsed /\ [][NextResolve]_vars

\* Any goroutine may be inside GetJobName or GetContainerImage, after
\* flag.Parse; nothing outside the package writes the flags.
NextConc ==
    \/ \E t \in Threads : CallGetJobName(t) /\ ObserveConc
    \/ \E t \in Threads : CheckJobName(t) /\ ObserveConc
    \/ \E t \in Threads : SprintfJobNameNow(t) /\ ObserveConc
    \/ \E t \in Threads : StoreJobName(t) /\ ObserveConc
    \/ \E t \in Threads : ReturnJobName(t) /\ ObserveConc
    \/ \E t \in Threads : CallGetContainerImage(t) /\ ObserveConc
    \/ \E t \in Threads : CheckContainerImage(t) /\ ObserveConc
    \/ \E t \in Threads : ExpandEnvImage(t) /\ ObserveConc
    \/ \E t \in Threads : StoreContainerImage(t) /\ ObserveConc
    \/ \E t \in Threads : LogDevImage(t) /\ ObserveConc
    \/ \E t \in Threads : ReturnContainerImage(t) /\ ObserveConc
    \/ \E t \in Threads : Return(t) /\ ObserveConc
    \/ Tick /\ ObserveConc

\* The four flags that are only read, and USER, play no part in the race.
InitConc == InitParsed /\ Endpoint = <<>> /\ USER = <<"u">>

SpecConc == InitConc /\ [][NextConc]_vars

----------------------------------------------------------------------------
(* Properties *)

\* The caller's call has returned and its result has not been taken yet.
Returned(op) == pc[Caller] = "done" /\ res[Caller][1].op = op

Result == res[Caller][1]
Before == pre[1]
Call == cur[1]

\* The text of a string header whose two words belong together.
Content(h) == SubSeq(h.ptr, 1, h.len)

Commas(s) == Cardinality({i \in 1..Len(s) : s[i] = ","})

RECURSIVE Join(_)
\* The tokens written one after the other with "," between them.
Join(toks) ==
    IF toks = <<>> THEN <<>>
    ELSE IF Len(toks) = 1 THEN toks[1]
    ELSE toks[1] \o <<",">> \o Join(Tail(toks))

DigitValue(c) == CASE c = "0" -> 0 [] c = "1" -> 1 [] c = "2" -> 2 [] c = "3" -> 3
                   [] c = "4" -> 4 [] c = "5" -> 5 [] c = "6" -> 6 [] c = "7" -> 7
                   [] c = "8" -> 8 [] c = "9" -> 9 [] OTHER -> 10

RECURSIVE ParseDecimal(_)
\* The number a string of decimal digits denotes.
ParseDecimal(s) ==
    IF s = <<>> THEN 0
    ELSE 10 * ParseDecimal(SubSeq(s, 1, Len(s) - 1)) + DigitValue(s[Len(s)])

HasPrefix(s, p) == Len(s) >= Len(p) /\ SubSeq(s, 1, Len(p)) = p

IsDecimal(s) ==
    /\ s # <<>>
    /\ \A i \in 1..Len(s) : DigitValue(s[i]) < 10
    /\ (Len(s) > 1 => s[1] # "0")

C6_SplitLiteral ==
    Returned("GetExperiments") =>
        IF Before.Experiments = <<>>
        THEN Result.val = <<>>
        ELSE /\ Len(Result.val) = Commas(Before.Experiments) + 1
             /\ \A i \in 1..Len(Result.val) : Commas(Result.val[i]) = 0
             /\ Join(Result.val) = Before.Experiments

\* C6 witness: the flag "a," has been split into "a" and the empty token.
C6_Witness ==
    /\ Returned("GetExperiments")
    /\ Before.Experiments = <<"a", ",">>
    /\ Result.val = << <<"a">>, <<>> >>

\* C7: GetExperiments leaves all six flags as they were, and against the
\* previous GetExperiments call its result is the same exactly when the flag's
\* value is the same: a changed flag gives the new value's split.
C7_NoCache ==
    Returned("GetExperiments") =>
        /\ Snapshot = Before
        /\ ~Call.wrote
        /\ Call.prevExp # <<>> =>
              (Result.val = Call.prevExp[1].val <=> Experiments = Call.prevExp[1].raw)

\* C7 witness: the flag was changed between two calls and the second call
\* returned something else than the first.
C7_Witness ==
    /\ Returned("GetExperiments")
    /\ Call.prevExp # <<>>
    /\ Call.prevExp[1].raw # <<>>
    /\ Experiments # <<>>
    /\ Experiments # Call.prevExp[1].raw
    /\ Result.val # Call.prevExp[1].val

\* C2: when GetJobName has returned before and JobName was not written from
\* outside since, the next GetJobName returns the string the previous one
\* returned, without reading the clock and without writing a flag.
C2_JobNameIdempotent ==
    (Returned("GetJobName") /\ Call.prevName # <<>>) =>
        /\ Result.val = Call.prevName[1]
        /\ Call.now = <<>>
        /\ ~Call.wrote

\* C2 witness: a second call returned the name generated by the first although
\* the clock has moved on since that name was generated.
C2_Witness ==
    /\ Returned("GetJobName")
    /\ Call.prevName # <<>>
    /\ HasPrefix(Content(Result.val), JobNamePrefix)
    /\ Result.val # DefaultJobName(clock)

\* C3: a GetJobName call that finds the JobName flag non-empty returns that
\* value and leaves the flag as it was.
C3_ExplicitJobNameWins ==
    (Returned("GetJobName") /\ ~IsEmptyString(Before.JobName)) =>
        /\ Result.val = Before.JobName
        /\ JobName = Before.JobName
        /\ ~Call.sawEmpty

\* C3 witness: the flag was set to "my-job" and the call returned "my-job".
C3_Witness ==
    /\ Returned("GetJobName")
    /\ Before.JobName = MkString(<<"m", "y", "-", "j", "o", "b">>)
    /\ Content(Result.val) = <<"m", "y", "-", "j", "o", "b">>

\* C4: a GetJobName call that finds the JobName flag empty reads the clock
\* once, returns "go-job-" followed by the decimal digits of the value read,
\* and leaves exactly the returned string in the flag.
C4_DefaultJobName ==
    (Returned("GetJobName") /\ IsEmptyString(Before.JobName)) =>
        /\ ~IsEmptyString(Result.val)
        /\ Len(Call.now) = 1
        /\ Len(Content(Result.val)) > Len(JobNamePrefix)
        /\ HasPrefix(Content(Result.val), JobNamePrefix)
        /\ LET digits == SubSeq(Content(Result.val), Len(JobNamePrefix) + 1,
                                Len(Content(Result.val)))
           IN  IsDecimal(digits) /\ ParseDecimal(digits) = Call.now[1]
        /\ JobName = Result.val

\* C4 witness: a name with a two-digit clock value was generated and stored.
C4_Witness ==
    /\ Returned("GetJobName")
    /\ IsEmptyString(Before.JobName)
    /\ Call.now = <<ClockStart + 1>>
    /\ JobName = Result.val
    /\ Result.val.len = Len(JobNamePrefix) + Len(FormatInt(ClockStart + 1))

\* C5: a GetContainerImage call that finds the flag empty returns a non-empty
\* string, leaves it in the flag and logs once; a call that finds the flag
\* non-empty returns it and logs nothing; a call that follows another with no
\* outside write between returns the same string and logs nothing.  Between
\* calls the number of log lines is the number of calls that found the flag
\* empty, and at most one more than the number of outside resets to empty.
C5_Diagnostics ==
    /\ Returned("GetContainerImage") =>
          /\ IsEmptyString(Before.ContainerImage) =>
                /\ ~IsEmptyString(Result.val)
                /\ ContainerImage = Result.val
                /\ Call.logged = 1
          /\ ~IsEmptyString(Before.ContainerImage) =>
                /\ Result.val = Before.ContainerImage
                /\ ContainerImage = Before.ContainerImage
                /\ Call.logged = 0
          /\ Call.prevImage # <<>> =>
                /\ Result.val = Call.prevImage[1]
                /\ Call.logged = 0
    /\ pc[Caller] \in {"idle", "done"} => diagnostics = stat.ciFinds
    /\ diagnostics <= 1 + stat.ciResets

\* C5 witness: the flag was defaulted, reset to empty from outside and
\* defaulted again: two log lines, and the call after that logs nothing.
C5_Witness ==
    /\ Returned("GetContainerImage")
    /\ Call.prevImage # <<>>
    /\ Call.logged = 0
    /\ diagnostics = 2
    /\ stat.ciResets = 1

\* C9: with one caller and no outside write, the flags change only inside a
\* call; GetJobName changes nothing but JobName, GetContainerImage nothing but
\* ContainerImage, GetEndpoint and GetExperiments nothing; and a changed flag
\* was empty before the call and is non-empty after it.
C9_ResolvedOnce ==
    /\ [](pc[Caller] = "done" =>
            /\ Endpoint = Before.Endpoint
            /\ Experiments = Before.Experiments
            /\ Async = Before.Async
            /\ InternalJavaRunner = Before.InternalJavaRunner
            /\ JobName # Before.JobName =>
                  /\ Result.op = "GetJobName"
                  /\ IsEmptyString(Before.JobName)
                  /\ ~IsEmptyString(JobName)
            /\ ContainerImage # Before.ContainerImage =>
                  /\ Result.op = "GetContainerImage"
                  /\ IsEmptyString(Before.ContainerImage)
                  /\ ~IsEmptyString(ContainerImage))
    /\ [][pc[Caller] \in {"idle", "done"} => rawVars' = rawVars]_vars

\* C9 witness: GetJobName has just resolved JobName while ContainerImage held
\* the default resolved earlier and the other flags held their given values.
C9_Witness ==
    /\ Returned("GetJobName")
    /\ IsEmptyString(Before.JobName)
    /\ ~IsEmptyString(JobName)
    /\ ContainerImage = DefaultContainerImage(USER)
    /\ Before.ContainerImage = ContainerImage
    /\ Endpoint # <<>>
    /\ Async

\* C8: a goroutine that found the flag empty is committed: each word it stores
\* is a word of its own default, whatever the flag holds by then, and once its
\* image is stored it logs.  Nothing makes it look at the flag again first.
C8_RacyDefaults ==
    [][\A t \in Threads :
          /\ (pc[t] = "jn65w" /\ pend'[t] # pend[t]) =>
                \A w \in pend[t] \ pend'[t] : JobName'[w] = gen[t][w]
          /\ (pc[t] = "ci75w" /\ pend'[t] # pend[t]) =>
                \A w \in pend[t] \ pend'[t] : ContainerImage'[w] = gen[t][w]
          /\ (pc[t] = "ci76" /\ pc'[t] # "ci76") => diagnostics' = diagnostics + 1
          /\ (pc[t] = "jn65" /\ pc'[t] # "jn65") => gen'[t] = DefaultJobName(clock)
          /\ (pc[t] = "ci75" /\ pc'[t] # "ci75") => gen'[t] = DefaultContainerImage(USER)
      ]_vars

\* C8 witness: two completed stores have left two different generated names
\* in JobName, and the container image default has been logged twice.
C8_Witness ==
    /\ \E a \in jnSeen, b \in jnSeen :
          /\ a # b
          /\ a.len = Len(a.ptr) /\ b.len = Len(b.ptr)
          /\ HasPrefix(a.ptr, JobNamePrefix)
          /\ HasPrefix(b.ptr, JobNamePrefix)
    /\ diagnostics >= 2

\* C10: with any goroutines inside GetJobName and GetContainerImage and no
\* outside write, no call returns the empty string, a default about to be
\* stored is non-empty, and a non-empty flag never becomes empty.
C10_NeverEmpty ==
    /\ [](\A t \in Threads :
            /\ pc[t] = "done" => ~IsEmptyString(res[t][1].val)
            /\ pc[t] \in {"jn65w", "ci75w"} => ~IsEmptyString(gen[t]))
    /\ [][/\ ~IsEmptyString(JobName) => ~IsEmptyString(JobName')
          /\ ~IsEmptyString(ContainerImage) => ~IsEmptyString(ContainerImage')]_vars

\* C10 witness: a goroutine that stored its own name returned, while another
\* goroutine was still inside GetJobName, a name that is not the one it stored.
C10_Witness ==
    \E t \in Threads, u \in Threads :
        /\ t # u
        /\ pc[t] = "done" /\ res[t][1].op = "GetJobName"
        /\ pc[u] \in {"jn65w", "jn67"}
        /\ Cardinality(jnSeen) = 2
        /\ ~IsEmptyString(res[t][1].val)
        /\ res[t][1].val # JobName

====
